---- MODULE Spec2Model ----
(***************************************************************************)
(* A model of vg_pt_utils.vg_layerstack.VG_StackManager and of the         *)
(* shortcut / menu handlers that drive it.  The host application owns the  *)
(* layer stack; the model keeps the part of the host state the handlers    *)
(* read and write: the root layer nodes of the active stack (top first),   *)
(* the selection, each layer's name, type, active channels, mask, content  *)
(* effects and blending modes.                                             *)
(***************************************************************************)
EXTENDS Integers, Sequences, FiniteSets, TLC

VARIABLES projectOpen,    \* project.is_open()
          stackChannels,  \* keys of current_stack.all_channels()
          layers,         \* layerstack.get_root_layer_nodes(stack), top first
          selection,      \* layerstack.get_selected_nodes(stack)
          nextId,         \* the handle the host gives the next node it creates
          last,           \* the last handler run: its name, input, the state before it and its outcome
          steps,          \* number of handlers run (bounded in Spec only)
          textureSet,     \* the active texture set: its name, mesh, UV tiles, resolution
          baking,         \* the texture set's baking parameters, the bake running, the UI mode
          exported        \* the last export: its configuration, its status, the files written

vars == <<projectOpen, stackChannels, layers, selection, nextId, last, steps,
          textureSet, baking, exported>>

-----------------------------------------------------------------------------
\* Bounds of the model
MaxLayers == 2      \* root layers the handlers may build up
MaxNodes  == 4      \* nodes the host creates in one run (SpecRef)
MaxSel    == 2      \* length of the selection the user makes
MaxSteps  == 3      \* handlers run in one behaviour of Spec
MaxExportNodes == 3 \* nodes the host creates in one run (SpecExport)
MaxResLog2 == 9     \* largest texture set resolution is 2^MaxResLog2 (SpecBake)
MaxHandlers == 2    \* BakingProcessEnded handlers connected at once (SpecBake)

-----------------------------------------------------------------------------
\* Values
None == "None"
\* an optional value of another type: None is <<>>, the value x is <<x>>
Nothing == <<>>
Some(x) == <<x>>
ActiveStack == "ActiveStack"

ChannelType == {"BaseColor", "Height", "AO"}
StackChannelChoices == {{"BaseColor", "Height"}, {"BaseColor", "Height", "AO"}}

base_name == "REF POINT LAYER"

color_map == [Black |-> "Black", White |-> "White"]

Range(s) == {s[i] : i \in DOMAIN s}

NoMask == [has |-> FALSE, bkg |-> None, effects |-> <<>>]

\* a node as the host creates it: no mask, no content effect, default blending
NewNode(id, type, channels) ==
    [id |-> id, name |-> <<"">>, type |-> type, channels |-> channels,
     mask |-> NoMask, content |-> <<>>, blend |-> {}, sub |-> <<>>,
     source |-> {}]

\* the paint layer a new project starts with
DefaultLayer ==
    [NewNode(1, "paint", stackChannels) EXCEPT !.name = <<"Layer 1">>]

\* str.startswith(base_name) on a layer name; a name is a sequence of tokens,
\* f"{base_name} ({n})" is <<base_name, n>>
startswith(name, prefix) == Len(name) >= 1 /\ name[1] = prefix

ref_point_name(n) == <<base_name, n>>

-----------------------------------------------------------------------------
\* The host state a handler works on, with the record of what it did:
\* cmds are the layer-stack calls issued, err is "none", "logged"
\* (logging.error) or "raised" (an exception left the handler).
HostState ==
    [layers |-> layers, selection |-> selection, nextId |-> nextId,
     cmds |-> <<>>, err |-> "none", ret |-> Nothing]

Call(h, name) == [h EXCEPT !.cmds = Append(@, name)]
LogError(h)   == [h EXCEPT !.err = "logged", !.ret = Nothing]
Raise(h)      == [h EXCEPT !.err = "raised", !.ret = Nothing]

IndexOf(ls, id) == CHOOSE i \in DOMAIN ls : ls[i].id = id
NodeOf(ls, id)  == ls[IndexOf(ls, id)]

InsertAt(ls, i, x) == SubSeq(ls, 1, i - 1) \o <<x>> \o SubSeq(ls, i, Len(ls))
RemoveAt(ls, i)    == SubSeq(ls, 1, i - 1) \o SubSeq(ls, i + 1, Len(ls))

\* VG_StackManager.__init__
VG_StackManager ==
    [_current_stack |-> IF projectOpen THEN ActiveStack ELSE None,
     _stack_layers_count |-> Nothing]

-----------------------------------------------------------------------------
\* layerstack.insert_fill / insert_paint at an insert position: "top" is
\* InsertPosition.from_textureset_stack, <<id>> is InsertPosition.above_node.
\* dflt is the set of channels the host activates on a node it creates.
insert_layer(h, pos, type, dflt) ==
    LET node == NewNode(h.nextId, type, dflt)
        at   == IF pos = Nothing THEN 1 ELSE IndexOf(h.layers, pos[1])
    IN  [Call(h, IF type = "fill" THEN "insert_fill" ELSE "insert_paint")
            EXCEPT !.layers = InsertAt(h.layers, at, node),
                   !.nextId = h.nextId + 1,
                   !.ret = Some(node.id)]

SetField(h, id, f, v) ==
    [h EXCEPT !.layers[IndexOf(h.layers, id)][f] = v]

\* VG_StackManager.add_layer; active_channels is Nothing (not given) or
\* Some(list of channel names)
add_layer(self, h, layer_type, active_channels, layer_position, dflt) ==
    IF layer_position \notin {"Above", "On Top"} THEN LogError(h)
    ELSE
    LET current_layer_count == self._stack_layers_count IN
    IF self._current_stack = None THEN LogError(h)
    ELSE
    LET h1 == Call(h, "get_selected_nodes")
        selected_layer == h1.selection
        count_is_zero == current_layer_count # Nothing /\ current_layer_count[1] = 0
    IN
    IF ~count_is_zero /\ layer_position = "Above" /\ selected_layer = <<>>
    THEN Raise(h1)                      \* selected_layer[0]: IndexError
    ELSE
    LET insert_position ==
            IF count_is_zero THEN Nothing
            ELSE IF layer_position = "Above" THEN Some(selected_layer[1])
            ELSE Nothing
    IN
    IF layer_type \notin {"fill", "paint"} THEN LogError(h1)
    ELSE
    LET h2 == insert_layer(h1, insert_position, layer_type, dflt)
        new_layer == h2.ret[1]
        h3 == SetField(Call(h2, "set_name"), new_layer, "name",
                       IF layer_type = "fill" THEN <<"New Fill layer">>
                                              ELSE <<"New Paint layer">>)
        truthy == active_channels # Nothing /\ Len(active_channels[1]) > 0
    IN
    IF truthy /\ \E i \in DOMAIN active_channels[1] :
                      active_channels[1][i] \notin ChannelType
    THEN Raise(h3)                      \* getattr(textureset.ChannelType, channel): AttributeError
    ELSE
    LET chans == IF truthy THEN Range(active_channels[1]) ELSE stackChannels
        h4 == SetField(h3, new_layer, "channels", chans)
    IN  [Call(h4, "set_selected_nodes") EXCEPT !.selection = <<new_layer>>]

\* mask_one_layer with plausible slips, used to test the mask properties
FreshMask(layer, bkg) ==
    [layer EXCEPT !.mask = [has |-> TRUE, bkg |-> bkg, effects |-> <<>>]]

\* the specified color is ignored when a mask is present: the mask is inverted
mask_one_layer_IgnoreColor(layer, mask_bkg_color) ==
    IF layer.mask.has
    THEN FreshMask(layer, IF layer.mask.bkg = "Black" THEN "White" ELSE "Black")
    ELSE FreshMask(layer, IF mask_bkg_color \in DOMAIN color_map
                          THEN color_map[mask_bkg_color] ELSE "Black")

\* the default background of a first mask is White
mask_one_layer_DefaultWhite(layer, mask_bkg_color) ==
    IF layer.mask.has
    THEN FreshMask(layer, IF mask_bkg_color # None THEN color_map[mask_bkg_color]
                          ELSE IF layer.mask.bkg = "Black" THEN "White" ELSE "Black")
    ELSE FreshMask(layer, IF mask_bkg_color \in DOMAIN color_map
                          THEN color_map[mask_bkg_color] ELSE "White")

\* an existing mask is replaced by a black one instead of being inverted
mask_one_layer_NoInvert(layer, mask_bkg_color) ==
    FreshMask(layer, IF mask_bkg_color \in DOMAIN color_map
                     THEN color_map[mask_bkg_color] ELSE "Black")

\* the inversion changes the background in place: remove_mask is not called
mask_one_layer_InvertInPlace(layer, mask_bkg_color) ==
    IF layer.mask.has
    THEN IF mask_bkg_color # None
         THEN FreshMask(layer, color_map[mask_bkg_color])
         ELSE [layer EXCEPT !.mask.bkg = IF @ = "Black" THEN "White" ELSE "Black"]
    ELSE FreshMask(layer, IF mask_bkg_color \in DOMAIN color_map
                          THEN color_map[mask_bkg_color] ELSE "Black")

\* a specified color is set in place: remove_mask is not called
mask_one_layer_RecolorInPlace(layer, mask_bkg_color) ==
    IF layer.mask.has
    THEN IF mask_bkg_color # None
         THEN [layer EXCEPT !.mask.bkg = color_map[mask_bkg_color]]
         ELSE FreshMask(layer, IF layer.mask.bkg = "Black" THEN "White" ELSE "Black")
    ELSE FreshMask(layer, IF mask_bkg_color \in DOMAIN color_map
                          THEN color_map[mask_bkg_color] ELSE "Black")

\* the body of add_mask's loop for one selected layer
mask_one_layer(layer, mask_bkg_color) ==
    IF layer.mask.has
    THEN IF mask_bkg_color # None
         THEN [layer EXCEPT !.mask = [has |-> TRUE, bkg |-> color_map[mask_bkg_color],
                                      effects |-> <<>>]]
         ELSE LET current_mask_background == layer.mask.bkg
                  new_mask_background ==
                      IF current_mask_background = "Black" THEN "White" ELSE "Black"
              IN [layer EXCEPT !.mask = [has |-> TRUE, bkg |-> new_mask_background,
                                         effects |-> <<>>]]
    ELSE LET mask_to_add == IF mask_bkg_color \in DOMAIN color_map
                            THEN color_map[mask_bkg_color] ELSE "Black"
         IN [layer EXCEPT !.mask = [has |-> TRUE, bkg |-> mask_to_add, effects |-> <<>>]]

RECURSIVE add_mask_loop(_, _, _)
add_mask_loop(h, current_layer, mask_bkg_color) ==
    IF current_layer = <<>> THEN h
    ELSE LET i  == IndexOf(h.layers, Head(current_layer))
             l  == h.layers[i]
             c1 == IF l.mask.has THEN <<"has_mask", "remove_mask", "add_mask">>
                                 ELSE <<"has_mask", "add_mask">>
             h1 == [h EXCEPT !.layers[i] = mask_one_layer(l, mask_bkg_color),
                             !.cmds = @ \o c1]
         IN add_mask_loop(h1, Tail(current_layer), mask_bkg_color)

\* add_mask looping over every root layer instead of the selection
add_mask_AllLayers(self, h, mask_bkg_color) ==
    IF mask_bkg_color # None /\ mask_bkg_color \notin DOMAIN color_map
    THEN LogError(h)
    ELSE IF self._current_stack # None
         THEN LET h1 == Call(h, "get_root_layer_nodes")
              IN add_mask_loop(h1, [i \in DOMAIN h1.layers |-> h1.layers[i].id],
                               mask_bkg_color)
         ELSE h

\* VG_StackManager.add_mask
add_mask(self, h, mask_bkg_color) ==
    IF mask_bkg_color # None /\ mask_bkg_color \notin DOMAIN color_map
    THEN LogError(h)
    ELSE IF self._current_stack # None
         THEN LET h1 == Call(h, "get_selected_nodes")
              IN add_mask_loop(h1, h1.selection, mask_bkg_color)
         ELSE h

\* layerstack.insert_generator_effect(InsertPosition.inside_node(layer, NodeStack.Mask), ...)
\* for every layer of current_layer, in order
RECURSIVE insert_mask_effects(_, _, _)
insert_mask_effects(h, current_layer, effect) ==
    IF current_layer = <<>> THEN h
    ELSE LET i  == IndexOf(h.layers, Head(current_layer))
             h1 == [h EXCEPT !.layers[i].mask.effects = <<effect>> \o @,
                             !.cmds = Append(@, "insert_effect")]
         IN insert_mask_effects(h1, Tail(current_layer), effect)

add_black_mask_with_generator(self, h, generator) ==
    LET h1 == add_mask(self, h, "Black") IN
    IF self._current_stack # None
    THEN LET h2 == Call(h1, "get_selected_nodes")
         IN insert_mask_effects(h2, h2.selection, generator)
    ELSE h1

\* VG_StackManager.add_black_mask_with_ao_generator
add_black_mask_with_ao_generator(self, h) ==
    add_black_mask_with_generator(self, h, "Ambient Occlusion")

\* VG_StackManager.add_black_mask_with_curvature_generator
add_black_mask_with_curvature_generator(self, h) ==
    add_black_mask_with_generator(self, h, "Curvature")

\* VG_StackManager.add_mask_with_fill
add_mask_with_fill(self, h) ==
    LET h0 == Call(h, "get_selected_nodes") IN
    IF self._current_stack = None THEN Raise(h0)   \* the host is handed None for a stack
    ELSE
    LET current_layer == h0.selection
        h1 == add_mask(self, h0, None)
    IN  IF current_layer = <<>> THEN Raise(h1)     \* current_layer[0]: IndexError
        ELSE insert_mask_effects(h1, <<current_layer[1]>>, "fill")

RECURSIVE delete_nodes(_, _)
delete_nodes(h, ids) ==
    IF ids = <<>> THEN h
    ELSE LET i  == IndexOf(h.layers, Head(ids))
             gone == {Head(ids)} \cup {h.layers[i].sub[k].id : k \in DOMAIN h.layers[i].sub}
             h1 == [h EXCEPT !.layers = RemoveAt(h.layers, i),
                             !.selection = SelectSeq(h.selection, LAMBDA s : s \notin gone),
                             !.cmds = Append(@, "delete_node")]
         IN delete_nodes(h1, Tail(ids))

\* a delete_stack_content that deletes the topmost root layer only
delete_stack_content_TopOnly(self, h) ==
    LET h0 == Call(h, "get_root_layer_nodes") IN
    IF h0.layers = <<>> THEN h0 ELSE delete_nodes(h0, <<h0.layers[1].id>>)

\* VG_StackManager.delete_stack_content
delete_stack_content(self, h) ==
    LET h0 == Call(h, "get_root_layer_nodes") IN
    IF self._current_stack = None THEN Raise(h0)   \* the host is handed None for a stack
    ELSE LET current_layers == [i \in DOMAIN h0.layers |-> h0.layers[i].id]
         IN delete_nodes(h0, current_layers)

\* the counting loop of generate_ref_point_layer
RECURSIVE count_sub(_)
count_sub(sublayers) ==
    IF sublayers = <<>> THEN 0
    ELSE (IF startswith(Head(sublayers).name, base_name) THEN 1 ELSE 0)
         + count_sub(Tail(sublayers))

RECURSIVE count_ref_points(_)
count_ref_points(all_nodes) ==
    IF all_nodes = <<>> THEN 0
    ELSE LET node == Head(all_nodes) IN
         (IF startswith(node.name, base_name) THEN 1 ELSE 0)
         + (IF node.type = "group" THEN count_sub(node.sub) ELSE 0)
         + count_ref_points(Tail(all_nodes))

\* VG_StackManager.generate_ref_point_layer
generate_ref_point_layer(self, h, dflt) ==
    LET h0 == Call(h, "get_root_layer_nodes") IN
    IF self._current_stack = None THEN Raise(h0)   \* the host is handed None for a stack
    ELSE
    LET all_nodes == h0.layers
        ref_point_count == 1 + count_ref_points(all_nodes)
        name == ref_point_name(ref_point_count)
        h1 == add_layer(self, h0, "paint", Nothing, "Above", dflt)
    IN  IF h1.err = "raised" THEN h1
        ELSE IF h1.ret = Nothing THEN Raise(h1)    \* None.set_name: AttributeError
        ELSE
        LET ref_point_layer == h1.ret[1]
            h2 == SetField(Call(h1, "set_name"), ref_point_layer, "name", name)
            chans == NodeOf(h2.layers, ref_point_layer).channels
            h3 == SetField(h2, ref_point_layer, "blend", {<<c, 25>> : c \in chans})
            h4 == SetField(Call(h3, "insert_anchor_point_effect"), ref_point_layer,
                           "content", <<[kind |-> "anchor", name |-> name]>>)
        IN h4

-----------------------------------------------------------------------------
\* What a handler was called with (the parameters it does not take keep
\* these defaults) and the record of a state no handler has run in
NoArgs == [color |-> None, layer_type |-> None, active_channels |-> Nothing,
           layer_position |-> None]

Idle == [op |-> "none", arg |-> NoArgs, pre |-> <<>>, preSel |-> <<>>,
         cmds |-> <<>>, err |-> "none", ret |-> Nothing]

\* a handler ran: the host state is what it left, and last records the run
Ran(op, arg, h) ==
    /\ layers' = h.layers
    /\ selection' = h.selection
    /\ nextId' = h.nextId
    /\ last' = [op |-> op, arg |-> arg, pre |-> layers, preSel |-> selection,
                cmds |-> h.cmds, err |-> h.err, ret |-> h.ret]
    /\ UNCHANGED <<projectOpen, stackChannels>>

\* the host can still create a node within the bounds of the model
CanCreate == Len(layers) < MaxLayers /\ nextId <= MaxNodes

\* inputs of add_layer
LayerTypes == {"fill", "paint", "smart"}
LayerPositions == {"Above", "On Top", "Below"}
ChannelLists ==
    {<<>>} \cup {<<c>> : c \in stackChannels}
           \cup {<<c, d>> : c \in stackChannels, d \in stackChannels}
ActiveChannelInputs == {Nothing} \cup {Some(l) : l \in ChannelLists}
MaskColors == {None, "Black", "White", "Grey"}

\* stack_manager = VG_StackManager(); stack_manager.add_layer(...)
AddLayer(layer_type, active_channels, layer_position) ==
    /\ CanCreate
    /\ \E dflt \in SUBSET stackChannels :
         Ran("add_layer",
             [NoArgs EXCEPT !.layer_type = layer_type,
                            !.active_channels = active_channels,
                            !.layer_position = layer_position],
             add_layer(VG_StackManager, HostState, layer_type, active_channels,
                       layer_position, dflt))

CallAddLayer ==
    \E t \in LayerTypes, a \in ActiveChannelInputs, p \in LayerPositions :
        AddLayer(t, a, p)

on_ctrl_plus_f_shortcut_activated == AddLayer("fill", Some(<<"BaseColor">>), "Above")

on_ctrl_plus_alt_plus_f_shortcut_activated == AddLayer("fill", Some(<<"Height">>), "Above")

on_ctrl_plus_shift_plus_f_shortcut_activated == AddLayer("fill", Nothing, "Above")

on_ctrl_plus_p_shortcut_activated == AddLayer("paint", Nothing, "Above")

\* menu command "New Fill Layer, no channel"
new_fill_layer_empty ==
    /\ CanCreate
    /\ \E dflt \in SUBSET stackChannels :
         Ran("new_fill_layer_empty",
             [NoArgs EXCEPT !.layer_type = "fill", !.active_channels = Some(<<"">>),
                            !.layer_position = "Above"],
             add_layer(VG_StackManager, HostState, "fill", Some(<<"">>), "Above", dflt))

\* stack_manager = VG_StackManager(); stack_manager.add_mask(mask_bkg_color)
AddMask(mask_bkg_color) ==
    Ran("add_mask", [NoArgs EXCEPT !.color = mask_bkg_color],
        add_mask(VG_StackManager, HostState, mask_bkg_color))

CallAddMask == \E c \in MaskColors : AddMask(c)

on_ctrl_plus_m_shortcut_activated == AddMask(None)

on_ctrl_plus_shift_plus_m_shortcut_activated ==
    Ran("add_black_mask_with_ao_generator", NoArgs,
        add_black_mask_with_ao_generator(VG_StackManager, HostState))

on_ctrl_plus_alt_plus_m_shortcut_activated ==
    Ran("add_black_mask_with_curvature_generator", NoArgs,
        add_black_mask_with_curvature_generator(VG_StackManager, HostState))

add_mask_with_fill_effect ==
    Ran("add_mask_with_fill", NoArgs, add_mask_with_fill(VG_StackManager, HostState))

CallDeleteStackContent ==
    Ran("delete_stack_content", NoArgs, delete_stack_content(VG_StackManager, HostState))

create_ref_point_layer ==
    /\ CanCreate
    /\ \E dflt \in SUBSET stackChannels :
         Ran("generate_ref_point_layer", NoArgs,
             generate_ref_point_layer(VG_StackManager, HostState, dflt))

-----------------------------------------------------------------------------
\* The user, in the host application

\* injective sequences over the root layers, at most MaxSel long
Selections ==
    LET ids == {layers[i].id : i \in DOMAIN layers} IN
    {s \in UNION {[1..n -> ids] : n \in 0..MaxSel} :
        \A i, j \in DOMAIN s : i # j => s[i] # s[j]}

UserSelect ==
    /\ \E s \in Selections : s # selection /\ selection' = s
    /\ last' = Idle
    /\ UNCHANGED <<projectOpen, stackChannels, layers, nextId>>

\* the user deletes one root layer (layerstack.delete_node by hand)
UserDelete ==
    /\ \E i \in DOMAIN layers :
         LET h == delete_nodes(HostState, <<layers[i].id>>) IN
         /\ layers' = h.layers
         /\ selection' = h.selection
    /\ last' = Idle
    /\ UNCHANGED <<projectOpen, stackChannels, nextId>>

\* the user groups the first selected layer: a group node takes its place
\* and the layer becomes the group's sub-layer
UserGroup ==
    /\ selection # <<>>
    /\ nextId <= MaxNodes
    /\ LET i == IndexOf(layers, selection[1])
           g == [NewNode(nextId, "group", stackChannels)
                    EXCEPT !.name = <<"Group">>, !.sub = <<layers[i]>>]
       IN /\ layers[i].type # "group"
          /\ layers' = [layers EXCEPT ![i] = g]
          /\ selection' = <<g.id>>
    /\ nextId' = nextId + 1
    /\ last' = Idle
    /\ UNCHANGED <<projectOpen, stackChannels>>

-----------------------------------------------------------------------------
\* The texture set, its baking parameters and the export, where the stack
\* handlers leave them
Chars(n) ==
    CASE n = "BaseColor" -> <<"B", "a", "s", "e", "C", "o", "l", "o", "r">>
      [] n = "Height" -> <<"H", "e", "i", "g", "h", "t">>
      [] n = "AO" -> <<"A", "O">>
      [] n = "ambientOcclusion" ->
            <<"a", "m", "b", "i", "e", "n", "t", "O", "c", "c", "l", "u", "s", "i", "o", "n">>
      [] n = "png" -> <<"p", "n", "g">>
      [] n = "Mesh_low" -> <<"M", "e", "s", "h", "_", "l", "o", "w">>
      [] n = "Cube" -> <<"C", "u", "b", "e">>
      [] n = "Body" -> <<"B", "o", "d", "y">>
      [] n = "Set_1.png" -> <<"S", "e", "t", "_", "1", ".", "p", "n", "g">>
      [] n = "export/v_1.0" -> <<"e", "x", "p", "o", "r", "t", "/", "v", "_", "1", ".", "0">>
      [] n = "1001" -> <<"1", "0", "0", "1">>
      [] n = "1002" -> <<"1", "0", "0", "2">>

MeshMapUsage == {"Normal", "AO", "Curvature"}

DefaultTextureSet ==
    [name |-> "Body", mesh |-> "Cube", uv_tiles |-> <<>>, width |-> 1024, height |-> 1024]

DefaultBaking ==
    [OutputSize |-> <<10, 10>>, enabled |-> MeshMapUsage, running |-> FALSE,
     handlers |-> 0, mode |-> "paint"]

NoExport == [status |-> "none", config |-> <<>>, textures |-> <<>>]

-----------------------------------------------------------------------------
\* Initial states: a project just opened, with the paint layer the host
\* gives a new texture set, selected; or no project open.
InitOpen ==
    /\ projectOpen = TRUE
    /\ stackChannels \in StackChannelChoices
    /\ layers = <<DefaultLayer>>
    /\ selection = <<1>>
    /\ nextId = 2
    /\ last = Idle
    /\ steps = 0
    /\ textureSet = DefaultTextureSet
    /\ baking = DefaultBaking
    /\ exported = NoExport

InitClosed ==
    /\ projectOpen = FALSE
    /\ stackChannels = {}
    /\ layers = <<>>
    /\ selection = <<>>
    /\ nextId = 1
    /\ last = Idle
    /\ steps = 0
    /\ textureSet = DefaultTextureSet
    /\ baking = DefaultBaking
    /\ exported = NoExport

Init == InitOpen \/ InitClosed

\* one more step of a behaviour of Spec; a step of the other specifications
Counted(A) ==
    /\ steps < MaxSteps /\ steps' = steps + 1
    /\ UNCHANGED <<textureSet, baking, exported>>
    /\ A
Free(A) == UNCHANGED <<steps, textureSet, baking, exported>> /\ A

\* Every handler and the user, for MaxSteps steps
Next ==
    \/ Counted(CallAddLayer)
    \/ Counted(on_ctrl_plus_f_shortcut_activated)
    \/ Counted(on_ctrl_plus_alt_plus_f_shortcut_activated)
    \/ Counted(on_ctrl_plus_shift_plus_f_shortcut_activated)
    \/ Counted(on_ctrl_plus_p_shortcut_activated)
    \/ Counted(new_fill_layer_empty)
    \/ Counted(CallAddMask)
    \/ Counted(on_ctrl_plus_m_shortcut_activated)
    \/ Counted(on_ctrl_plus_shift_plus_m_shortcut_activated)
    \/ Counted(on_ctrl_plus_alt_plus_m_shortcut_activated)
    \/ Counted(add_mask_with_fill_effect)
    \/ Counted(CallDeleteStackContent)
    \/ Counted(create_ref_point_layer)
    \/ Counted(UserSelect)
    \/ Counted(UserDelete)
    \/ Counted(UserGroup)

Spec == Init /\ [][Next]_vars

\* The mask handlers on a stack built with Ctrl+Shift+F, any selection
NextMask ==
    \/ Free(on_ctrl_plus_shift_plus_f_shortcut_activated)
    \/ Free(CallAddMask)
    \/ Free(on_ctrl_plus_m_shortcut_activated)
    \/ Free(on_ctrl_plus_shift_plus_m_shortcut_activated)
    \/ Free(on_ctrl_plus_alt_plus_m_shortcut_activated)
    \/ Free(add_mask_with_fill_effect)
    \/ Free(UserSelect)

SpecMask == Init /\ [][NextMask]_vars

\* Reference point layers, with the user deleting and grouping layers
NextRef ==
    \/ Free(create_ref_point_layer)
    \/ Free(UserDelete)
    \/ Free(UserGroup)
    \/ Free(UserSelect)

SpecRef == InitOpen /\ [][NextRef]_vars

-----------------------------------------------------------------------------
\* vg_project_info and vg_export.  A file name or path is a sequence of
\* characters; in a file name of the export configuration "$mesh",
\* "$textureSet" and "$udim" are single elements, which the host replaces.

\* the order the host lists the channels of a stack in
ChannelOrder == <<"BaseColor", "Height", "AO">>

\* TextureSetInfo.generate_uv_tiles_coord_list
generate_uv_tiles_coord_list ==
    [i \in DOMAIN textureSet.uv_tiles |->
        <<textureSet.uv_tiles[i].u, textureSet.uv_tiles[i].v>>]

\* TextureSetInfo.fetch_texture_set_info_from_stack
fetch_texture_set_info_from_stack ==
    [Texture_Set |-> textureSet,
     Name |-> textureSet.name,
     Channels |-> SelectSeq(ChannelOrder, LAMBDA c : c \in stackChannels),
     UV_Tiles_coordinates |-> generate_uv_tiles_coord_list]

\* current_texture_set.has_uv_tiles()
has_uv_tiles(ts) == ts.uv_tiles # <<>>

\* ExportConfigGenerator.generate_current_channels_maps_export with the
\* components of the "RGBA" loop as a parameter
channels_maps_export(components) ==
    LET current_textureset_info == fetch_texture_set_info_from_stack
        udim_suffix == IF has_uv_tiles(current_textureset_info.Texture_Set)
                       THEN <<".", "$udim">> ELSE <<>>
        raw_channels_list == current_textureset_info.Channels
        channels_names == [i \in DOMAIN raw_channels_list |->
                              IF raw_channels_list[i] = "AO" THEN "ambientOcclusion"
                              ELSE raw_channels_list[i]]
    IN  [i \in DOMAIN channels_names |->
            [fileName |-> <<"$mesh", "_", "$textureSet", "_">>
                          \o Chars(channels_names[i]) \o udim_suffix,
             channels |-> [k \in DOMAIN components |->
                              [destChannel |-> components[k],
                               srcChannel |-> components[k],
                               srcMapType |-> "DocumentMap",
                               srcMapName |-> channels_names[i]]],
             parameters |-> [bitDepth |-> "8", dithering |-> FALSE,
                             fileFormat |-> "png"]]]

\* a generator that leaves the alpha component out
generate_current_channels_maps_export_RGB == channels_maps_export(<<"R", "G", "B">>)

\* ExportConfigGenerator.generate_current_channels_maps_export
generate_current_channels_maps_export == channels_maps_export(<<"R", "G", "B", "A">>)

\* ExportConfigGenerator.generate_export_config
generate_export_config(export_path, preset_name) ==
    LET current_channels_export_preset ==
            [name |-> preset_name, maps |-> generate_current_channels_maps_export]
        current_textureset_info == fetch_texture_set_info_from_stack
    IN  [exportPath |-> export_path,
         exportShaderParams |-> FALSE,
         defaultExportPreset |-> preset_name,
         exportPresets |-> <<current_channels_export_preset>>,
         exportList |-> <<[rootPath |-> current_textureset_info.Name]>>,
         exportParameters |-> <<[parameters |-> [dithering |-> TRUE,
                                                 paddingAlgorithm |-> "infinite"]]>>,
         uvTiles |-> current_textureset_info.UV_Tiles_coordinates]

\* the number the host writes for "$udim": 1001 + u + 10 v
Udim(tile) == IF tile[1] = 0 /\ tile[2] = 0 THEN Chars("1001") ELSE Chars("1002")

RECURSIVE Flatten(_)
Flatten(ss) == IF ss = <<>> THEN <<>> ELSE Head(ss) \o Flatten(Tail(ss))

\* the host writes one file of a map: the variables of the file name
\* replaced, "." and the file format appended, under the export path
written_file(config, map, tile) ==
    LET part(x) == CASE x = "$mesh" -> Chars(textureSet.mesh)
                     [] x = "$textureSet" -> Chars(config.exportList[1].rootPath)
                     [] x = "$udim" -> Udim(tile)
                     [] OTHER -> <<x>>
    IN  Chars(config.exportPath) \o <<"/">>
        \o Flatten([i \in DOMAIN map.fileName |-> part(map.fileName[i])])
        \o <<".">> \o Chars(map.parameters.fileFormat)

\* export.export_project_textures when it succeeds: the files of the default
\* preset, one per map, and per UV tile when the name has "$udim" in it
export_project_textures(config) ==
    LET preset == CHOOSE q \in Range(config.exportPresets) :
                      q.name = config.defaultExportPreset
        files(map) == IF "$udim" \in Range(map.fileName)
                      THEN [t \in DOMAIN config.uvTiles |->
                               written_file(config, map, config.uvTiles[t])]
                      ELSE <<written_file(config, map, <<0, 0>>)>>
    IN  Flatten([i \in DOMAIN preset.maps |-> files(preset.maps[i])])

\* str.rfind: the last place sub starts at in str, counted from 1; 0 is
\* Python's -1
rfind(str, sub) ==
    LET at == {i \in 1..(Len(str) - Len(sub) + 1) :
                  SubSeq(str, i, i + Len(sub) - 1) = sub}
    IN  IF at = {} THEN 0 ELSE CHOOSE i \in at : \A j \in at : j <= i

\* str.split(".")[0]
split_first(str) ==
    LET dots == {i \in DOMAIN str : str[i] = "."}
    IN  IF dots = {} THEN str
        ELSE SubSeq(str, 1, (CHOOSE i \in dots : \A j \in dots : i <= j) - 1)

\* an extractor that takes the name up to the extension, UV tile number included
extract_channel_type_NoSplit(texture_path) ==
    LET last_underscore_index == rfind(texture_path, <<"_">>)
        extension_index == rfind(texture_path, <<".">> \o Chars("png"))
    IN  IF last_underscore_index # 0 /\ extension_index # 0
        THEN LET s0 == SubSeq(texture_path, last_underscore_index + 1, extension_index - 1)
             IN Some(IF s0 = Chars("ambientOcclusion") THEN Chars("AO") ELSE s0)
        ELSE Nothing

\* ChannelTypeExtractor.extract_channel_type: Some(string) or Nothing (None)
extract_channel_type(texture_path) ==
    LET last_underscore_index == rfind(texture_path, <<"_">>)
        extension_index == rfind(texture_path, <<".">> \o Chars("png"))
    IN  IF last_underscore_index # 0 /\ extension_index # 0
        THEN LET s0 == SubSeq(texture_path, last_underscore_index + 1, extension_index - 1)
                 channel_type_string == split_first(s0)
             IN Some(IF channel_type_string = Chars("ambientOcclusion")
                     THEN Chars("AO") ELSE channel_type_string)
        ELSE Nothing

\* getattr(layerstack.ChannelType, channel_type_string): Some(member), or
\* Nothing where Python raises AttributeError
getattr_ChannelType(string) ==
    IF \E c \in ChannelType : Chars(c) = string
    THEN Some(CHOOSE c \in ChannelType : Chars(c) = string)
    ELSE Nothing

\* new_layer.set_source(channel_type, resource): the source of the channel
\* is replaced
set_source(layer, channel_type, resource) ==
    [layer EXCEPT !.source =
        {p \in @ : p[1] # channel_type} \cup {<<channel_type, resource>>}]

\* TextureImporter.import_textures: the imported resources by path, in the
\* order of first insertion in the dict
RECURSIVE import_textures(_)
import_textures(paths) ==
    IF paths = <<>> THEN <<>>
    ELSE LET rest == import_textures(SubSeq(paths, 1, Len(paths) - 1))
             p == paths[Len(paths)]
         IN IF p \in Range(rest) THEN rest ELSE Append(rest, p)

\* LayerTextureAssigner.assign_textures_to_layer
RECURSIVE assign_textures_to_layer(_, _, _)
assign_textures_to_layer(h, new_layer, imported_textures) ==
    IF imported_textures = <<>> THEN h
    ELSE LET texture_path == Head(imported_textures)
             channel_type_string == extract_channel_type(texture_path)
         IN IF channel_type_string # Nothing /\ channel_type_string[1] # <<>>
            THEN LET channel_type == getattr_ChannelType(channel_type_string[1]) IN
                 IF channel_type = Nothing THEN Raise(h)
                 ELSE LET i == IndexOf(h.layers, new_layer)
                          h1 == [Call(h, "set_source") EXCEPT
                                    !.layers[i] = set_source(@, channel_type[1], texture_path)]
                      IN assign_textures_to_layer(h1, new_layer, Tail(imported_textures))
            ELSE assign_textures_to_layer(h, new_layer, Tail(imported_textures))

\* TextureAssignmentManager.import_and_assign_textures
import_and_assign_textures(h, new_layer, textures_to_import) ==
    assign_textures_to_layer(h, new_layer, import_textures(textures_to_import))

\* vg_layerstack.LayerManager.add_layer, which takes the name of the layer:
\* VG_StackManager.add_layer, and the layer named layer_name
LayerManager_add_layer(self, h, layer_type, active_channels, layer_position, layer_name, dflt) ==
    LET h1 == add_layer(self, h, layer_type, active_channels, layer_position, dflt)
    IN  IF h1.ret = Nothing THEN h1
        ELSE SetField(h1, h1.ret[1], "name", <<layer_name>>)

\* the end of create_layer_from_stack and flatten_stack: the new fill layer
\* on top, its blending modes, the textures imported and assigned
layer_from_textures(self, h, exported_textures, dflt) ==
    LET h1 == LayerManager_add_layer(self, h, "fill", Nothing, "On Top",
                                     "Stack layer", dflt)
    IN  IF h1.ret = Nothing THEN Raise(h1)     \* None.active_channels: AttributeError
        ELSE
        LET new_layer == h1.ret[1]
            chans == NodeOf(h1.layers, new_layer).channels
            h2 == SetField(h1, new_layer, "blend", {<<c, 2>> : c \in chans})
        IN import_and_assign_textures(h2, new_layer, exported_textures)

\* export.get_default_export_path()
DefaultExportPath == "export/v_1.0"
PresetName == "Current channels Export"

\* vg_export.create_layer_from_stack; exported_textures is Nothing when the
\* export failed
create_layer_from_stack(self, h, exported_textures, dflt) ==
    IF exported_textures # Nothing
    THEN layer_from_textures(self, h, exported_textures[1], dflt)
    ELSE h

\* vg_export.flatten_stack
flatten_stack(self, h, exported_textures, dflt) ==
    LET h1 == delete_stack_content(self, h) IN
    IF h1.err = "raised" THEN h1
    ELSE IF exported_textures # Nothing
         THEN layer_from_textures(self, h1, exported_textures[1], dflt)
         ELSE h1

\* TextureExporter.export_textures: the host's answer is recorded
Exported(ok) ==
    LET export_config == generate_export_config(DefaultExportPath, PresetName)
    IN  [status |-> IF ok THEN "ok" ELSE "error",
         config |-> export_config,
         textures |-> IF ok THEN export_project_textures(export_config) ELSE <<>>]

exported_textures_of(e) == IF e.status = "ok" THEN Some(e.textures) ELSE Nothing

\* menu command "Flatten Stack"
menu_flatten_stack ==
    /\ projectOpen
    /\ nextId <= MaxExportNodes
    /\ \E ok \in BOOLEAN :
         LET e == Exported(ok) IN
         /\ exported' = e
         /\ \E dflt \in {{}, stackChannels} :
              Ran("flatten_stack", NoArgs,
                  flatten_stack(VG_StackManager, HostState, exported_textures_of(e), dflt))
    /\ UNCHANGED <<steps, textureSet, baking>>

\* menu command "Create layer from stack"
menu_create_layer_from_stack ==
    /\ projectOpen
    /\ CanCreate /\ nextId <= MaxExportNodes
    /\ \E ok \in BOOLEAN :
         LET e == Exported(ok) IN
         /\ exported' = e
         /\ \E dflt \in {{}, stackChannels} :
              Ran("create_layer_from_stack", NoArgs,
                  create_layer_from_stack(VG_StackManager, HostState,
                                          exported_textures_of(e), dflt))
    /\ UNCHANGED <<steps, textureSet, baking>>

\* a texture set without UV tiles, and two with UV tiles; names and mesh
\* names with "_" and "." in them
TextureSetChoices ==
    {DefaultTextureSet,
     [name |-> "Set_1.png", mesh |-> "Mesh_low", uv_tiles |-> <<[u |-> 0, v |-> 0]>>,
      width |-> 2048, height |-> 1024],
     [name |-> "Body", mesh |-> "Mesh_low",
      uv_tiles |-> <<[u |-> 0, v |-> 0], [u |-> 1, v |-> 0]>>,
      width |-> 512, height |-> 512]}

InitExport ==
    /\ projectOpen = TRUE
    /\ stackChannels \in StackChannelChoices
    /\ layers = <<DefaultLayer>>
    /\ selection = <<1>>
    /\ nextId = 2
    /\ last = Idle
    /\ steps = 0
    /\ textureSet \in TextureSetChoices
    /\ baking = DefaultBaking
    /\ exported = NoExport

\* a step of SpecExport that creates a node
Exporting(A) == nextId <= MaxExportNodes /\ Free(A)

\* Export and re-import, on stacks the user builds, groups and deletes from
NextExport ==
    \/ menu_flatten_stack
    \/ menu_create_layer_from_stack
    \/ Exporting(on_ctrl_plus_shift_plus_f_shortcut_activated)
    \/ Exporting(UserGroup)
    \/ Free(UserSelect)
    \/ Free(UserDelete)

SpecExport == InitExport /\ [][NextExport]_vars

-----------------------------------------------------------------------------------------------------------------------------------------------------
\* Baking (vg_baking.py)

\* int(math.log2(n)) for n >= 1: the logarithm rounded towards zero
RECURSIVE ilog2(_)
ilog2(n) == IF n < 2 THEN 0 ELSE 1 + ilog2(n \div 2)

\* textureset.MeshMapUsage(id): the member of the enumeration for a value
MeshMapUsage_of(id) == CHOOSE u \in MeshMapUsage : u = id

\* BakingParameterConfigurator.mesh_maps_to_bake_list
mesh_maps_to_bake_list(id_list) == {MeshMapUsage_of(id) : id \in id_list}

\* a configure_baking_parameters that hands the host (height, width)
configure_baking_parameters_Swapped(b, textureset_name, width, height, mesh_maps_to_bake) ==
    [b EXCEPT !.OutputSize = <<height, width>>,
              !.enabled = mesh_maps_to_bake_list(mesh_maps_to_bake)]

\* BakingParameterConfigurator.configure_baking_parameters on the baking
\* parameters b of the texture set
configure_baking_parameters(b, textureset_name, width, height, mesh_maps_to_bake) ==
    LET map_usage_list == mesh_maps_to_bake_list(mesh_maps_to_bake) IN
    [b EXCEPT !.OutputSize = <<width, height>>,
              !.enabled = map_usage_list]

\* BakingProcessManager.start_baking; accepted is whether the host takes
\* the bake_async request
start_baking(b, accepted) ==
    [b EXCEPT !.handlers = @ + 1,
              !.running = @ \/ accepted]

\* BakingProcessManager.switch_to_paint_view
switch_to_paint_view(b) ==
    [b EXCEPT !.mode = "paint", !.handlers = @ - 1]

\* vg_baking.quick_bake
quick_bake(b, accepted) ==
    LET textureset_info == fetch_texture_set_info_from_stack
        textureset_name == textureset_info.Name
        current_texture_set == textureset_info.Texture_Set
        width == ilog2(current_texture_set.width)
        height == ilog2(current_texture_set.height)
        enabled_bakers == b.enabled
        baking_params == configure_baking_parameters(b, textureset_name, width, height,
                                                     enabled_bakers)
    IN start_baking(baking_params, accepted)

\* the menu's "Quick Bake" entry; with no project open get_active_stack
\* raises before anything is set
launch_quick_bake ==
    /\ baking.handlers < MaxHandlers
    /\ \E accepted \in IF baking.running THEN BOOLEAN ELSE {TRUE} :
         /\ baking' = IF projectOpen THEN quick_bake(baking, accepted) ELSE baking
         /\ last' = [Idle EXCEPT !.op = "quick_bake",
                                 !.arg = [enabled |-> baking.enabled],
                                 !.err = IF projectOpen /\ accepted THEN "none" ELSE "raise"]
    /\ UNCHANGED <<projectOpen, stackChannels, layers, selection, nextId, steps,
                   textureSet, exported>>

\* the host ends the bake and dispatches BakingProcessEnded to every
\* connected handler
RECURSIVE dispatch(_)
dispatch(b) == IF b.handlers = 0 THEN b ELSE dispatch(switch_to_paint_view(b))

BakingProcessEnded ==
    /\ baking.running
    /\ baking' = dispatch([baking EXCEPT !.running = FALSE])
    /\ UNCHANGED <<projectOpen, stackChannels, layers, selection, nextId, last, steps,
                   textureSet, exported>>

\* resolutions a texture set can have
Resolutions == {2^k : k \in 7..MaxResLog2}

\* the user changes the resolution of the texture set
UserSetResolution ==
    /\ projectOpen
    /\ \E w \in Resolutions, h \in Resolutions :
         /\ <<w, h>> # <<textureSet.width, textureSet.height>>
         /\ textureSet' = [textureSet EXCEPT !.width = w, !.height = h]
    /\ last' = Idle
    /\ UNCHANGED <<projectOpen, stackChannels, layers, selection, nextId, steps,
                   baking, exported>>

\* the user ticks or unticks one mesh map in the baking window
UserToggleBaker ==
    /\ projectOpen
    /\ \E u \in MeshMapUsage :
         baking' = [baking EXCEPT !.enabled =
                        IF u \in @ THEN @ \ {u} ELSE @ \cup {u}]
    /\ last' = Idle
    /\ UNCHANGED <<projectOpen, stackChannels, layers, selection, nextId, steps,
                   textureSet, exported>>

\* the user opens the baking view
UserOpensBakingView ==
    /\ projectOpen
    /\ baking.mode = "paint"
    /\ baking' = [baking EXCEPT !.mode = "baking"]
    /\ UNCHANGED <<projectOpen, stackChannels, layers, selection, nextId, last, steps,
                   textureSet, exported>>

InitBake ==
    /\ \/ /\ projectOpen = TRUE
          /\ stackChannels = ChannelType
          /\ layers = <<DefaultLayer>>
          /\ selection = <<1>>
          /\ nextId = 2
       \/ /\ projectOpen = FALSE
          /\ stackChannels = {}
          /\ layers = <<>>
          /\ selection = <<>>
          /\ nextId = 1
    /\ last = Idle
    /\ steps = 0
    /\ \E w \in Resolutions, h \in Resolutions :
         textureSet = [DefaultTextureSet EXCEPT !.width = w, !.height = h]
    /\ baking = DefaultBaking
    /\ exported = NoExport

NextBake ==
    \/ launch_quick_bake
    \/ BakingProcessEnded
    \/ UserSetResolution
    \/ UserToggleBaker
    \/ UserOpensBakingView

SpecBake == InitBake /\ [][NextBake]_vars

------
\* Properties

Ids(ls) == {ls[i].id : i \in DOMAIN ls}
\* the layer with this handle before the last handler ran, and now
Before(id) == NodeOf(last.pre, id)
Now(id)    == NodeOf(layers, id)
WasSelected == Range(last.preSel)
Generators == {"Ambient Occlusion", "Curvature"}
IsGenerator(e) == e \in Generators

\* names of the root layers and of the sub-layers of groups
AllNames(ls) ==
    {ls[i].name : i \in DOMAIN ls}
    \cup UNION {{ls[i].sub[k].name : k \in DOMAIN ls[i].sub} : i \in DOMAIN ls}

\* C1: the name generate_ref_point_layer gives the new layer and its anchor
\* point differs from the name of every layer that was in the stack, root
\* layers and sub-layers of groups included.
C1_RefPointNameIsUnique ==
    (last.op = "generate_ref_point_layer" /\ last.err = "none") =>
        LET new == Now(last.ret[1]) IN
        /\ new.name \notin AllNames(last.pre)
        /\ \A k \in DOMAIN new.content : new.content[k].name \notin AllNames(last.pre)

\* C2: after add_mask(color) with color Black or White every selected layer
\* has a mask whose background is that color.
C2_SpecifiedColorIsApplied ==
    (last.op = "add_mask" /\ last.arg.color \in {"Black", "White"}) =>
        \A id \in WasSelected :
            Now(id).mask.has /\ Now(id).mask.bkg = last.arg.color

C2_Witness ==
    /\ last.op = "add_mask" /\ last.arg.color = "White"
    /\ \E id \in WasSelected : Before(id).mask.has /\ Before(id).mask.bkg = "Black"
    /\ \E id \in WasSelected : ~Before(id).mask.has

\* C3: add_mask() with no color gives a selected layer that had no mask a
\* Black mask.
C3_FirstMaskIsBlack ==
    (last.op = "add_mask" /\ last.arg.color = None) =>
        \A id \in WasSelected :
            ~Before(id).mask.has => Now(id).mask.has /\ Now(id).mask.bkg = "Black"

C3_Witness ==
    /\ last.op = "add_mask" /\ last.arg.color = None
    /\ \E id \in WasSelected : ~Before(id).mask.has /\ Now(id).mask.has

\* C4: add_mask() with no color inverts the background of the mask of a
\* selected layer that has one, and a second add_mask() right after the
\* first gives the layer the background it had before the first.
Inverted(bkg) == IF bkg = "Black" THEN "White" ELSE "Black"

C4_Inverts ==
    (last.op = "add_mask" /\ last.arg.color = None) =>
        \A id \in WasSelected :
            Before(id).mask.has =>
                Now(id).mask.has /\ Now(id).mask.bkg = Inverted(Before(id).mask.bkg)

C4_SecondCallRestores ==
    (/\ last.op = "add_mask" /\ last.arg.color = None
     /\ last'.op = "add_mask" /\ last'.arg.color = None) =>
        \A id \in WasSelected :
            Before(id).mask.has =>
                NodeOf(layers', id).mask.bkg = Before(id).mask.bkg

C6_OnlySelectedLayersChange ==
    (last.op = "add_mask") =>
        /\ Len(layers) = Len(last.pre)
        /\ \A i \in DOMAIN layers :
               last.pre[i].id \notin WasSelected => layers[i] = last.pre[i]
        /\ (last.preSel = <<>> => layers = last.pre)

C6_Witness ==
    /\ last.op = "add_mask"
    /\ \E i \in DOMAIN layers : layers[i].id \notin WasSelected /\ layers[i].mask.has
    /\ \E i \in DOMAIN layers : layers[i].id \in WasSelected /\ layers[i] # last.pre[i]

\* C7: with no project open each operation of VG_StackManager issues no
\* layer-stack call to the host and reports an error.
StackManagerOps ==
    {"add_layer", "add_mask", "add_black_mask_with_ao_generator",
     "add_black_mask_with_curvature_generator", "add_mask_with_fill",
     "delete_stack_content", "generate_ref_point_layer"}

C7_NoStackNoCommandAndError ==
    (~projectOpen /\ last.op \in StackManagerOps) =>
        last.cmds = <<>> /\ last.err # "none"

\* C8: the layer add_layer creates has exactly the channels named in
\* active_channels when the list is given, and all the channels of the
\* stack when it is not.
C8_ActiveChannelsAsRequested ==
    (last.op = "add_layer" /\ last.ret # Nothing) =>
        Now(last.ret[1]).channels =
            IF last.arg.active_channels # Nothing
            THEN Range(last.arg.active_channels[1])
            ELSE stackChannels

\* C9: after new_fill_layer_empty, run with a project open and a layer
\* selected, the stack has one more fill layer and that layer has no active
\* channel.
C9_EmptyFillLayerCreated ==
    (last.op = "new_fill_layer_empty" /\ projectOpen /\ last.preSel # <<>>) =>
        /\ Len(layers) = Len(last.pre) + 1
        /\ \E i \in DOMAIN layers :
             /\ layers[i].id \notin Ids(last.pre)
             /\ layers[i].type = "fill"
             /\ layers[i].channels = {}

\* C10: after add_black_mask_with_ao_generator or
\* add_black_mask_with_curvature_generator every selected layer has a Black
\* mask holding exactly one generator, of the requested kind, however many
\* times the handlers ran on the selection before.
RequestedGenerator ==
    IF last.op = "add_black_mask_with_ao_generator"
    THEN "Ambient Occlusion" ELSE "Curvature"

C10_BlackMaskWithOneGenerator ==
    (last.op \in {"add_black_mask_with_ao_generator",
                  "add_black_mask_with_curvature_generator"}) =>
        \A id \in WasSelected :
            /\ Now(id).mask.has
            /\ Now(id).mask.bkg = "Black"
            /\ SelectSeq(Now(id).mask.effects, IsGenerator) = <<RequestedGenerator>>

C10_Witness ==
    /\ last.op = "add_black_mask_with_ao_generator"
    /\ \E id \in WasSelected :
         /\ Before(id).mask.has
         /\ SelectSeq(Before(id).mask.effects, IsGenerator) # <<>>
         /\ Now(id).mask.effects = <<"Ambient Occlusion">>

\* handles of the root layers and of the sub-layers of groups
AllIds(ls) ==
    Ids(ls) \cup UNION {{ls[i].sub[k].id : k \in DOMAIN ls[i].sub} : i \in DOMAIN ls}

ExportedChannels == SelectSeq(ChannelOrder, LAMBDA c : c \in stackChannels)
ExportName(c) == IF c = "AO" THEN "ambientOcclusion" ELSE c
FilesOf(config, map) ==
    IF "$udim" \in Range(map.fileName)
    THEN {written_file(config, map, config.uvTiles[t]) : t \in DOMAIN config.uvTiles}
    ELSE {written_file(config, map, <<0, 0>>)}

\* C12: for every channel of the stack the generated file name is
\* "$mesh_$textureSet_<name>", with ".$udim" when the texture set has UV
\* tiles and AO written ambientOcclusion; that name followed by ".png", and
\* every file the host writes under it, is mapped back to the channel by
\* extract_channel_type, and the new layer's source for the channel is one
\* of those files.
C12_ChannelNamesSurviveRoundTrip ==
    (last.op \in {"flatten_stack", "create_layer_from_stack"}
        /\ exported.status = "ok") =>
        /\ last.err = "none"
        /\ last.ret # Nothing
        /\ LET maps == exported.config.exportPresets[1].maps IN
           /\ Len(maps) = Len(ExportedChannels)
           /\ \A i \in DOMAIN maps :
                LET c == ExportedChannels[i]
                    files == FilesOf(exported.config, maps[i])
                IN /\ maps[i].fileName =
                          <<"$mesh", "_", "$textureSet", "_">> \o Chars(ExportName(c))
                          \o (IF has_uv_tiles(textureSet) THEN <<".", "$udim">> ELSE <<>>)
                   /\ extract_channel_type(maps[i].fileName \o <<".">> \o Chars("png"))
                          = Some(Chars(c))
                   /\ files # {}
                   /\ files \subseteq Range(exported.textures)
                   /\ \A f \in files : extract_channel_type(f) = Some(Chars(c))
                   /\ \E f \in files : <<c, f>> \in Now(last.ret[1]).source
                   /\ \A q \in Now(last.ret[1]).source : q[1] = c => q[2] \in files

C12_Witness ==
    /\ last.op = "create_layer_from_stack" /\ exported.status = "ok"
    /\ "AO" \in stackChannels
    /\ textureSet.name = "Set_1.png" /\ has_uv_tiles(textureSet)
    /\ last.ret # Nothing
    /\ \E q \in Now(last.ret[1]).source : q[1] = "AO"

\* C13: the export configuration has exactly one map per channel of the
\* stack, each copying R, G, B, A of that channel as an 8-bit png, exactly
\* one preset, named as defaultExportPreset, and exactly one exportList
\* entry, whose rootPath is the texture set's name.
C13_OneRGBAMapPerChannel ==
    (exported.status # "none") =>
        LET cfg == exported.config
            maps == cfg.exportPresets[1].maps
        IN /\ Len(cfg.exportPresets) = 1
           /\ cfg.exportPresets[1].name = cfg.defaultExportPreset
           /\ Len(cfg.exportList) = 1
           /\ cfg.exportList[1].rootPath = textureSet.name
           /\ Len(maps) = Cardinality(stackChannels)
           /\ \A c \in stackChannels :
                Cardinality({i \in DOMAIN maps :
                    \E k \in DOMAIN maps[i].channels :
                        maps[i].channels[k].srcMapName = ExportName(c)}) = 1
           /\ \A i \in DOMAIN maps :
                /\ [k \in DOMAIN maps[i].channels |-> maps[i].channels[k].destChannel]
                       = <<"R", "G", "B", "A">>
                /\ \A k \in DOMAIN maps[i].channels :
                     /\ maps[i].channels[k].srcChannel = maps[i].channels[k].destChannel
                     /\ maps[i].channels[k].srcMapType = "DocumentMap"
                     /\ maps[i].channels[k].srcMapName = ExportName(ExportedChannels[i])
                /\ maps[i].parameters.bitDepth = "8"
                /\ maps[i].parameters.fileFormat = "png"

C13_Witness ==
    /\ exported.status = "ok"
    /\ "AO" \in stackChannels
    /\ Len(exported.config.exportPresets[1].maps) = 3

\* C14: quick_bake sets the baking OutputSize to (w, h) with 2^w the
\* texture set's width and 2^h its height, and leaves the set of enabled
\* bakers as it was before the call.
C14_BakesAtOwnResolutionWithUserMaps ==
    (last.op = "quick_bake" /\ projectOpen) =>
        /\ 2 ^ baking.OutputSize[1] = textureSet.width
        /\ 2 ^ baking.OutputSize[2] = textureSet.height
        /\ baking.enabled = last.arg.enabled

C14_Witness ==
    /\ last.op = "quick_bake" /\ projectOpen /\ last.err = "none"
    /\ textureSet.width # textureSet.height
    /\ baking.OutputSize # DefaultBaking.OutputSize
    /\ baking.enabled \notin {{}, MeshMapUsage}
    /\ baking.enabled = last.arg.enabled

====
